---- MODULE Spec2Model ----
(***************************************************************************)
(* UNet3D of connectomics/model/unet.py: the construction of the encoder   *)
(* and decoder stage lists from the constructor's arguments, and the       *)
(* forward pass that threads a tensor through them.  A tensor is modelled  *)
(* by its channel count and its spatial shape (depth, height, width); the  *)
(* numeric values play no part in the topology.  Python lists are kept     *)
(* 0-based: a list is a function over 0..n-1.                              *)
(***************************************************************************)
EXTENDS Integers, Sequences, FiniteSets, TLC

\* ---------------------------------------------------------------- bounds
MaxDepth == 3
MaxSize == 3
MaxCalls == 2

\* ----------------------------------------------------------------- state
VARIABLES
    args,      \* the arguments of the constructor call
    pc,        \* "new", "failed", "ready", or the place inside forward
    self,      \* the UNet3D object
    err,       \* the exception __init__ raised
    input,     \* forward's argument
    x,         \* forward's local x
    down_x,    \* forward's local down_x
    idx,       \* forward's loop variable
    trace,     \* the stages forward has applied in this call
    adds,      \* the _upsample_add calls of this call
    ret,       \* what the last forward call returned (Err: it raised; None
               \* while a call is running)
    ncalls     \* forward calls finished

vars == <<args, pc, self, err, input, x, down_x, idx, trace, adds, ret, ncalls>>

locals == <<input, x, down_x, idx, trace, adds>>

\* ------------------------------------------------------------- arguments
Unset == "unset"

\* filters: List[int] = [28, 36, 48, 64, 80]
DefaultFilters == <<28, 36, 48, 64, 80>>

List(seq) == [k \in 0..(Len(seq) - 1) |-> seq[k + 1]]

len(l) == Cardinality(DOMAIN l)

\* Python's list[k]: a negative k counts from the end.
Index(l, k) == IF k < 0 THEN l[len(l) + k] ELSE l[k]

FilterArgs == {List(SubSeq(DefaultFilters, 1, d)) : d \in 0..MaxDepth}

IsotropyArgs == UNION {[0..(d - 1) -> BOOLEAN] : d \in 0..MaxDepth}

ActModeArgs == {Unset, "relu"}

NormModeArgs == {Unset, "gn"}

in_channel == 1

out_channel == 3

Args ==
    [block_type : {"residual"},
     filters : FilterArgs,
     is_isotropic : BOOLEAN,
     isotropy : IsotropyArgs,
     pad_mode : {Unset},
     act_mode : ActModeArgs,
     norm_mode : NormModeArgs,
     pooling : BOOLEAN,
     output_act : {Unset}]

\* The defaults of the signature of __init__.
Default(value, dflt) == IF value = Unset THEN dflt ELSE value

pad_mode_of(a) == Default(a.pad_mode, "replicate")

act_mode_of(a) == Default(a.act_mode, "elu")

norm_mode_of(a) == Default(a.norm_mode, "bn")

output_act_of(a) == Default(a.output_act, "sigmoid")

block_dict == {"residual", "residual_se"}

\* ------------------------------------------------------ kernels, strides
Triple(n) == <<n, n, n>>

\* _get_kernal_size returns the pair (kernel_size, padding).
_get_kernal_size(is_isotropic, io_layer) ==
    IF io_layer
    THEN IF is_isotropic
         THEN [kernel |-> <<5, 5, 5>>, padding |-> <<2, 2, 2>>]
         ELSE [kernel |-> <<1, 5, 5>>, padding |-> <<0, 2, 2>>]
    ELSE IF is_isotropic
         THEN [kernel |-> <<3, 3, 3>>, padding |-> <<1, 1, 1>>]
         ELSE [kernel |-> <<1, 3, 3>>, padding |-> <<0, 1, 1>>]

\* The int 2 stands for 2 on every axis: the convolution and pooling layers
\* expand an int to a triple.
_get_downsample(is_isotropic) ==
    IF ~is_isotropic THEN <<1, 2, 2>> ELSE Triple(2)

\* The stride chosen without looking at the pooling flag.
_get_stride_ignores_pooling(pooling, is_isotropic, previous, i) ==
    IF previous = i THEN Triple(1) ELSE _get_downsample(is_isotropic)

_get_stride(pooling, is_isotropic, previous, i) ==
    IF pooling \/ previous = i THEN Triple(1) ELSE _get_downsample(is_isotropic)

MaxPool3d(kernel_size, stride) ==
    [type |-> "maxpool", kernel |-> kernel_size, stride |-> stride]

\* nn.Identity(): no kernel; written with the kernel and stride that leave
\* every size as it is.
Identity == [type |-> "identity", kernel |-> Triple(1), stride |-> Triple(1)]

_make_pooling_layer(pooling, is_isotropic, previous, i) ==
    IF pooling /\ previous # i
    THEN MaxPool3d(_get_downsample(is_isotropic), _get_downsample(is_isotropic))
    ELSE Identity

\* ---------------------------------------------------------------- layers
conv3d_norm_act(in_ch, out_ch, kernel_size, stride, padding, pad_mode, act_mode, norm_mode) ==
    [in_ch |-> in_ch, out_ch |-> out_ch, kernel |-> kernel_size, stride |-> stride,
     padding |-> padding, pad_mode |-> pad_mode, act_mode |-> act_mode,
     norm_mode |-> norm_mode]

block(block_type, in_ch, out_ch, pad_mode, act_mode, norm_mode) ==
    [type |-> block_type, in_ch |-> in_ch, out_ch |-> out_ch, pad_mode |-> pad_mode,
     act_mode |-> act_mode, norm_mode |-> norm_mode]

Max(a, b) == IF a >= b THEN a ELSE b

\* One pass of the loop of the encoding path: the stage built for i.
DownLayer(a, isotropy, i) ==
    LET ks == _get_kernal_size(isotropy[i], FALSE)
        previous == Max(0, i - 1)
        stride == _get_stride(a.pooling, isotropy[i], previous, i)
    IN  [pool |-> _make_pooling_layer(a.pooling, isotropy[i], previous, i),
         conv |-> conv3d_norm_act(a.filters[previous], a.filters[i], ks.kernel, stride,
                                  ks.padding, pad_mode_of(a), act_mode_of(a),
                                  norm_mode_of(a)),
         block |-> block(a.block_type, a.filters[i], a.filters[i], pad_mode_of(a),
                         act_mode_of(a), norm_mode_of(a))]

\* The decoder stage built with the kernel of the level it outputs to.
UpLayer_own_isotropy(a, isotropy, j) ==
    LET ks == _get_kernal_size(isotropy[j - 1], FALSE)
    IN  [conv |-> conv3d_norm_act(a.filters[j], a.filters[j - 1], ks.kernel, Triple(1),
                                  ks.padding, pad_mode_of(a), act_mode_of(a),
                                  norm_mode_of(a)),
         block |-> block(a.block_type, a.filters[j - 1], a.filters[j - 1],
                         pad_mode_of(a), act_mode_of(a), norm_mode_of(a))]

\* One pass of the loop of the decoding path: the stage built for j, which
\* the list holds at j-1.  No stride is passed: the convolution's own 1.
UpLayer(a, isotropy, j) ==
    LET ks == _get_kernal_size(isotropy[j], FALSE)
    IN  [conv |-> conv3d_norm_act(a.filters[j], a.filters[j - 1], ks.kernel, Triple(1),
                                  ks.padding, pad_mode_of(a), act_mode_of(a),
                                  norm_mode_of(a)),
         block |-> block(a.block_type, a.filters[j - 1], a.filters[j - 1],
                         pad_mode_of(a), act_mode_of(a), norm_mode_of(a))]

\* ---------------------------------------------------------- construction
\* The exception __init__ ends with, "none" when it returns.  With
\* is_isotropic the list comprehension iterates over len(isotropy), an int.
InitError(a) ==
    IF len(a.filters) # len(a.isotropy) THEN "AssertionError"
    ELSE IF a.is_isotropic THEN "TypeError"
    ELSE IF a.block_type \notin block_dict THEN "KeyError"
    ELSE IF len(a.filters) = 0 THEN "IndexError"
    ELSE "none"

NoLayer == conv3d_norm_act(0, 0, Triple(0), Triple(0), Triple(0), Unset, Unset, Unset)

\* The object before __init__ has set anything.
NoModel ==
    [pooling |-> FALSE, output_act |-> Unset, depth |-> 0, conv_in |-> NoLayer,
     conv_out |-> NoLayer, down_layers |-> <<>>, up_layers |-> <<>>]

\* The object __init__ leaves when it returns.
Build(a) ==
    LET isotropy == a.isotropy
        depth == len(a.filters)
        io == _get_kernal_size(a.is_isotropic, TRUE)
    IN  [pooling |-> a.pooling,
         output_act |-> output_act_of(a),
         depth |-> depth,
         conv_in |-> conv3d_norm_act(in_channel, a.filters[0], io.kernel, Triple(1),
                                     io.padding, pad_mode_of(a), act_mode_of(a),
                                     norm_mode_of(a)),
         conv_out |-> conv3d_norm_act(a.filters[0], out_channel, io.kernel, Triple(1),
                                      io.padding, pad_mode_of(a), "none", "none"),
         down_layers |-> [i \in 0..(depth - 1) |-> DownLayer(a, isotropy, i)],
         up_layers |-> [k \in 0..(depth - 2) |-> UpLayer(a, isotropy, k + 1)]]

\* ---------------------------------------------------------------- tensors
\* A tensor: channels c, spatial shape s, and the stage that produced it
\* (by, a label the program does not hold: it names the object).
Tensor(c, s) == [c |-> c, s |-> s, by |-> <<"input", 0>>]

\* The value of an expression that raised.
Err == [c |-> -1, s |-> Triple(0), by |-> <<"error", 0>>]

IsErr(t) == t.c < 0

\* Python's None in a slot that holds a tensor.
None == [c |-> 0, s |-> Triple(0), by |-> <<"none", 0>>]

Tag(t, kind, i) == IF IsErr(t) THEN t ELSE [t EXCEPT !.by = <<kind, i>>]

\* Output size of a sliding window (convolution, pooling) along one axis.
WindowSize(n, k, s, p) == ((n + 2 * p - k) \div s) + 1

WindowShape(shape, kernel, stride, padding) ==
    [a \in 1..3 |-> WindowSize(shape[a], kernel[a], stride[a], padding[a])]

Positive(shape) == \A a \in 1..3 : shape[a] >= 1

ApplyConv(l, t) ==
    IF IsErr(t) \/ t.c # l.in_ch THEN Err
    ELSE LET s == WindowShape(t.s, l.kernel, l.stride, l.padding)
         IN  IF Positive(s) THEN [t EXCEPT !.c = l.out_ch, !.s = s] ELSE Err

ApplyPool(p, t) ==
    IF IsErr(t) THEN Err
    ELSE IF p.type = "identity" THEN t
    ELSE LET s == WindowShape(t.s, p.kernel, p.stride, Triple(0))
         IN  IF Positive(s) THEN [t EXCEPT !.s = s] ELSE Err

\* A residual block adds its input to a transformation of it: same shape.
ApplyBlock(b, t) ==
    IF IsErr(t) \/ t.c # b.in_ch THEN Err ELSE [t EXCEPT !.c = b.out_ch]

\* nn.Sequential(pooling, conv, block) of an encoder stage.
ApplyDown(stage, t) ==
    ApplyBlock(stage.block, ApplyConv(stage.conv, ApplyPool(stage.pool, t)))

\* F.interpolate(x, size=size, mode='trilinear', align_corners=...).
interpolate(t, size) ==
    IF IsErr(t) \/ ~Positive(size) THEN Err ELSE [t EXCEPT !.s = size]

\* x + y of two tensors of one shape.
Add(t, y) ==
    IF IsErr(t) \/ IsErr(y) \/ t.c # y.c \/ t.s # y.s THEN Err ELSE t

align_corners_of(pooling) == IF pooling THEN FALSE ELSE TRUE

\* Upsampling by the factor 2 instead of to the size of the skip.
upsample_size_doubled(t, y) == [a \in 1..3 |-> 2 * t.s[a]]

\* The size the upsampling targets.
upsample_size(t, y) == y.s

_upsample_add(pooling, t, y) ==
    [align_corners |-> align_corners_of(pooling),
     size |-> upsample_size(t, y),
     out |-> Add(interpolate(t, upsample_size(t, y)), y)]

\* get_functional_act(output_act)(x): elementwise.
OutputAct(name, t) == t

\* The skip buffer of the call before, used again.
NewDownX_stale(depth) == down_x

\* down_x = [None] * (self.depth-1)
NewDownX(depth) == [k \in 0..(depth - 2) |-> None]

\* The decoder stages taken in increasing order.
UpIndex_ascending(depth, j) == j

\* i = self.depth-2-j
UpIndex(depth, j) == depth - 2 - j

InputShapes == [1..3 -> 1..MaxSize]

Init ==
    /\ args \in Args
    /\ pc = "new"
    /\ self = NoModel
    /\ err = "none"
    /\ input = None
    /\ x = None
    /\ down_x = <<>>
    /\ idx = 0
    /\ trace = <<>>
    /\ adds = <<>>
    /\ ret = None
    /\ ncalls = 0

__init__ ==
    /\ pc = "new"
    /\ err' = InitError(args)
    /\ self' = IF InitError(args) = "none" THEN Build(args) ELSE NoModel
    /\ pc' = IF InitError(args) = "none" THEN "ready" ELSE "failed"
    /\ UNCHANGED <<args, locals, ret, ncalls>>

Applied(kind, i, before, after) ==
    [kind |-> kind, i |-> i, before |-> before.s, after |-> after.s]

\* An exception inside forward ends the call: the caller gets no value.
Step(place) ==
    /\ pc' = IF IsErr(x') THEN "ready" ELSE place
    /\ ret' = IF IsErr(x') THEN Err ELSE ret
    /\ ncalls' = IF IsErr(x') THEN ncalls + 1 ELSE ncalls

\* x = self.conv_in(x); down_x = [None] * (self.depth-1)
forward_conv_in ==
    /\ pc = "ready"
    /\ ncalls < MaxCalls
    /\ \E shape \in InputShapes : input' = Tensor(in_channel, shape)
    /\ x' = Tag(ApplyConv(self.conv_in, input'), "conv_in", 0)
    /\ down_x' = NewDownX(self.depth)
    /\ idx' = 0
    /\ trace' = <<Applied("conv_in", 0, input', x')>>
    /\ adds' = <<>>
    /\ pc' = IF IsErr(x') THEN "ready" ELSE "down"
    /\ ret' = IF IsErr(x') THEN Err ELSE None
    /\ ncalls' = IF IsErr(x') THEN ncalls + 1 ELSE ncalls
    /\ UNCHANGED <<args, self, err>>

\* for i in range(self.depth-1): x = self.down_layers[i](x); down_x[i] = x
forward_down ==
    /\ pc = "down"
    /\ idx < self.depth - 1
    /\ x' = Tag(ApplyDown(self.down_layers[idx], x), "down", idx)
    /\ down_x' = [down_x EXCEPT ![idx] = x']
    /\ trace' = Append(trace, Applied("down", idx, x, x'))
    /\ idx' = idx + 1
    /\ Step("down")
    /\ UNCHANGED <<args, self, err, input, adds>>

\* x = self.down_layers[-1](x)
forward_bottom ==
    /\ pc = "down"
    /\ ~(idx < self.depth - 1)
    /\ x' = Tag(ApplyDown(Index(self.down_layers, -1), x), "down", self.depth - 1)
    /\ trace' = Append(trace, Applied("down", self.depth - 1, x, x'))
    /\ idx' = 0
    /\ Step("up")
    /\ UNCHANGED <<args, self, err, input, down_x, adds>>

\* for j in range(self.depth-1): the decoder stage i = self.depth-2-j
forward_up ==
    /\ pc = "up"
    /\ idx < self.depth - 1
    /\ LET i == UpIndex(self.depth, idx)
           x1 == ApplyConv(self.up_layers[i].conv, x)
           ua == _upsample_add(self.pooling, x1, down_x[i])
       IN  /\ x' = Tag(ApplyBlock(self.up_layers[i].block, ua.out), "up", i)
           /\ adds' = Append(adds, [dec |-> i, skip |-> down_x[i].by, y |-> down_x[i].s,
                                    before |-> x1.s, size |-> ua.size,
                                    align_corners |-> ua.align_corners,
                                    after |-> ua.out.s])
           /\ trace' = Append(trace, Applied("up", i, x, x'))
    /\ idx' = idx + 1
    /\ Step("up")
    /\ UNCHANGED <<args, self, err, input, down_x>>

\* x = self.conv_out(x); x = get_functional_act(self.output_act)(x); return x
forward_conv_out ==
    /\ pc = "up"
    /\ ~(idx < self.depth - 1)
    /\ x' = Tag(OutputAct(self.output_act, ApplyConv(self.conv_out, x)), "conv_out", 0)
    /\ trace' = Append(trace, Applied("conv_out", 0, x, x'))
    /\ pc' = "ready"
    /\ ret' = x'
    /\ ncalls' = ncalls + 1
    /\ UNCHANGED <<args, self, err, input, down_x, idx, adds>>

Next ==
    \/ __init__
    \/ forward_conv_in
    \/ forward_down
    \/ forward_bottom
    \/ forward_up
    \/ forward_conv_out

Spec == Init /\ [][Next]_vars

\* ------------------------------------------------------------ properties
Constructed == pc \notin {"new", "failed"}

\* A forward call has returned a tensor.
Returned == pc = "ready" /\ ncalls > 0 /\ ~IsErr(ret)

\* A forward call has ended, by return or by an exception.
Ended == pc = "ready" /\ ncalls > 0

Factor(isotropic) == IF isotropic THEN <<2, 2, 2>> ELSE <<1, 2, 2>>

\* C1: every encoder stage i >= 1 downsamples by exactly one mechanism: with
\* pooling a max-pooling layer whose kernel and stride are the stage's factor
\* and a first convolution of stride 1, without pooling an identity slot and
\* a first convolution whose stride is the factor; the factor is (2,2,2) for
\* an isotropic stage and (1,2,2) for an anisotropic one; stage 0 has an
\* identity slot and stride 1 for either value of pooling.
C1_OneDownsampleMechanism ==
    Constructed =>
        /\ self.pooling = args.pooling
        /\ self.down_layers[0].pool.type = "identity"
        /\ self.down_layers[0].conv.stride = <<1, 1, 1>>
        /\ \A i \in 1..(self.depth - 1) :
              LET st == self.down_layers[i]
                  f == Factor(args.isotropy[i])
              IN  IF self.pooling
                  THEN /\ st.pool.type = "maxpool"
                       /\ st.pool.kernel = f
                       /\ st.pool.stride = f
                       /\ st.conv.stride = <<1, 1, 1>>
                  ELSE /\ st.pool.type = "identity"
                       /\ st.conv.stride = f

C1_Witness ==
    /\ pc = "ready"
    /\ self.pooling
    /\ self.depth = 3
    /\ ~args.isotropy[1]
    /\ args.isotropy[2]

Expected(depth) ==
    <<<<"conv_in", 0>>>>
        \o [k \in 1..depth |-> <<"down", k - 1>>]
        \o [k \in 1..(depth - 1) |-> <<"up", depth - 1 - k>>]
        \o <<<<"conv_out", 0>>>>

Stages(tr) == [k \in 1..Len(tr) |-> <<tr[k].kind, tr[k].i>>]

IsPrefix(p, q) == Len(p) <= Len(q) /\ \A k \in 1..Len(p) : p[k] = q[k]

\* C2: with depth = len(filters) >= 1 there are depth encoder stages and
\* depth-1 decoder stages; a forward call applies conv_in, the encoder
\* stages 0..depth-1 in increasing order, the decoder stages depth-2..0 in
\* decreasing order; decoder stage i adds the feature map encoder stage i
\* produced, so every stored skip is consumed once and the output of stage
\* depth-1 is never a skip.
C2_StageOrderAndSkips ==
    Constructed =>
        /\ self.depth = len(args.filters)
        /\ self.depth >= 1
        /\ len(self.down_layers) = self.depth
        /\ len(self.up_layers) = self.depth - 1
        /\ IsPrefix(Stages(trace), Expected(self.depth))
        /\ \A k \in 1..Len(adds) :
              /\ adds[k].dec = self.depth - 1 - k
              /\ adds[k].skip = <<"down", adds[k].dec>>
        /\ Returned =>
              /\ Stages(trace) = Expected(self.depth)
              /\ Len(adds) = self.depth - 1
              /\ \A i \in 0..(self.depth - 2) :
                    Cardinality({k \in 1..Len(adds) : adds[k].skip = <<"down", i>>}) = 1
              /\ \A k \in 1..Len(adds) : adds[k].skip # <<"down", self.depth - 1>>

C2_Witness ==
    /\ Returned
    /\ self.depth = 3
    /\ Len(adds) = 2
    /\ adds[2].skip = <<"down", 0>>

\* C3: constructed with is_isotropic=True and an isotropy list as long as
\* filters, construction succeeds and every stage uses the isotropic kernel
\* (3,3,3) with padding (1,1,1) and, from stage 1 on, the factor (2,2,2),
\* whatever isotropy values were passed.
C3_IsIsotropicOverrides ==
    (pc # "new" /\ args.is_isotropic /\ len(args.filters) = len(args.isotropy)
        /\ len(args.filters) >= 1) =>
        /\ pc # "failed"
        /\ \A i \in 0..(self.depth - 1) :
              /\ self.down_layers[i].conv.kernel = <<3, 3, 3>>
              /\ self.down_layers[i].conv.padding = <<1, 1, 1>>
        /\ \A i \in 0..(self.depth - 2) :
              /\ self.up_layers[i].conv.kernel = <<3, 3, 3>>
              /\ self.up_layers[i].conv.padding = <<1, 1, 1>>
        /\ \A i \in 1..(self.depth - 1) :
              IF self.pooling
              THEN self.down_layers[i].pool.stride = <<2, 2, 2>>
              ELSE self.down_layers[i].conv.stride = <<2, 2, 2>>

HalfPadding(l) == \A a \in 1..3 : 2 * l.padding[a] = l.kernel[a] - 1

StageKernel(l, isotropic) ==
    /\ l.kernel = (IF isotropic THEN <<3, 3, 3>> ELSE <<1, 3, 3>>)
    /\ l.padding = (IF isotropic THEN <<1, 1, 1>> ELSE <<0, 1, 1>>)
    /\ HalfPadding(l)

IOKernel(l, isotropic) ==
    /\ l.kernel = (IF isotropic THEN <<5, 5, 5>> ELSE <<1, 5, 5>>)
    /\ l.padding = (IF isotropic THEN <<2, 2, 2>> ELSE <<0, 2, 2>>)
    /\ HalfPadding(l)

\* C4: kernel and padding of every convolution follow from an isotropy flag
\* alone: encoder stage i from isotropy[i], decoder stage j-1 from
\* isotropy[j], the input and output layers from is_isotropic; the values
\* are (3,3,3)/(1,1,1) or (1,3,3)/(0,1,1) for a stage, (5,5,5)/(2,2,2) or
\* (1,5,5)/(0,2,2) for the input and output layers, and the padding is
\* (kernel-1)/2 on every axis.
C4_KernelsFromIsotropy ==
    /\ \A b \in BOOLEAN :
          /\ IOKernel(_get_kernal_size(b, TRUE), b)
          /\ StageKernel(_get_kernal_size(b, FALSE), b)
    /\ Constructed =>
          /\ IOKernel(self.conv_in, args.is_isotropic)
          /\ IOKernel(self.conv_out, args.is_isotropic)
          /\ \A i \in 0..(self.depth - 1) :
                StageKernel(self.down_layers[i].conv, args.isotropy[i])
          /\ \A j \in 1..(self.depth - 1) :
                StageKernel(self.up_layers[j - 1].conv, args.isotropy[j])

C4_Witness ==
    /\ pc = "ready"
    /\ ~self.pooling
    /\ self.depth = 3
    /\ ~args.isotropy[0]
    /\ ~args.isotropy[1]
    /\ args.isotropy[2]

\* C5: _upsample_add upsamples to the spatial shape of the skip y and
\* returns x + y, with align_corners False when pooling is used and False
\* as well when downsampling by stride.
C5_AlignCornersFalse ==
    \A k \in 1..Len(adds) :
        /\ adds[k].size = adds[k].y
        /\ adds[k].after = adds[k].y
        /\ adds[k].align_corners = FALSE

\* C6: after construction no forward step changes the object (depth,
\* pooling, output_act, the encoder and decoder stage lists), and every
\* call starts from its own skip buffer of depth-1 empty slots, whatever an
\* earlier call left.
C6_TopologyImmutable ==
    [][/\ Constructed => self' = self
       /\ pc = "ready" =>
             /\ down_x' = [k \in 0..(self.depth - 2) |-> None]
             /\ adds' = <<>>
             /\ idx' = 0]_vars

C6_Witness ==
    /\ pc = "up"
    /\ ncalls >= 1
    /\ self.depth >= 2
    /\ down_x[0] # None

\* C7: without an explicit act_mode the input layer and every encoder and
\* decoder stage use 'relu'; conv_out has act_mode 'none' and norm_mode
\* 'none' whatever act_mode and norm_mode are given.
C7_DefaultActRelu ==
    Constructed =>
        /\ self.conv_out.act_mode = "none"
        /\ self.conv_out.norm_mode = "none"
        /\ args.act_mode = Unset =>
              /\ self.conv_in.act_mode = "relu"
              /\ \A i \in 0..(self.depth - 1) :
                    /\ self.down_layers[i].conv.act_mode = "relu"
                    /\ self.down_layers[i].block.act_mode = "relu"
              /\ \A i \in 0..(self.depth - 2) :
                    /\ self.up_layers[i].conv.act_mode = "relu"
                    /\ self.up_layers[i].block.act_mode = "relu"

RECURSIVE Pow2(_)
Pow2(n) == IF n = 0 THEN 1 ELSE 2 * Pow2(n - 1)

\* How many encoder stages halve axis a: every stage from 1 on halves the
\* height and the width, an isotropic one the depth axis too.
Halvings(a) ==
    Cardinality({i \in 1..(self.depth - 1) : a # 1 \/ args.isotropy[i]})

\* The sizes stay >= 1 after each pooling.
PoolingFits(shape) == \A a \in 1..3 : shape[a] \div Pow2(Halvings(a)) >= 1

DownOut(i) == (CHOOSE k \in 1..Len(trace) : trace[k].kind = "down" /\ trace[k].i = i)

\* C8: forward's output has the spatial shape of its input: without pooling
\* for every input of sizes >= 1 (a strided stage maps n to
\* floor((n-1)/2)+1), with pooling for every input whose sizes stay >= 1
\* after each pooling (n to floor(n/2)); each decoder upsampling restores
\* the size of the matching encoder stage, and an anisotropic stage leaves
\* the depth-axis size as it is.
C8_OutputShapeIsInputShape ==
    Constructed =>
        /\ Returned => ret.s = input.s
        /\ (Ended /\ ~self.pooling) => ~IsErr(ret)
        /\ (Ended /\ self.pooling) => (~IsErr(ret) <=> PoolingFits(input.s))
        /\ \A k \in 1..Len(adds) :
              Positive(adds[k].after) => adds[k].after = trace[DownOut(adds[k].dec)].after
        /\ \A k \in 1..Len(trace) :
              (trace[k].kind = "down" /\ Positive(trace[k].after)) =>
                  \A a \in 1..3 :
                      trace[k].after[a] =
                          IF trace[k].i = 0 \/ (a = 1 /\ ~args.isotropy[trace[k].i])
                          THEN trace[k].before[a]
                          ELSE IF self.pooling
                               THEN trace[k].before[a] \div 2
                               ELSE ((trace[k].before[a] - 1) \div 2) + 1

C8_Witness ==
    /\ Returned
    /\ ~self.pooling
    /\ self.depth = 3
    /\ ~args.isotropy[1]
    /\ args.isotropy[2]
    /\ input.s = <<3, 3, 2>>
    /\ ret.s = <<3, 3, 2>>
====
